---------------------------- MODULE Spec2Model ----------------------------
(***************************************************************************)
(* Model of dariah_topics/preprocessing.py: construction of the            *)
(* document-term matrix, the two feature filters and feature removal;      *)
(* and of dariah_topics/postprocessing.py: the topics table.               *)
(*                                                                         *)
(* A pandas DataFrame is the record                                        *)
(*   [index |-> row labels, columns |-> column labels, values |-> rows]    *)
(* where values[i][j] is the cell of row i and column j.  A token is a     *)
(* number; the order of the numbers is the sort order of the token         *)
(* strings ('a' < 'document' < 'is' < 'this' becomes 1 < 2 < 3 < 4).       *)
(* The pinned build is pandas 0.22.0 / numpy 1.14.2 (setup.py).            *)
(***************************************************************************)
EXTENDS Integers, Sequences, FiniteSets

(* ------------------------------ bounds -------------------------------- *)
MaxTok == 3
MaxDocs == 2
MaxCorpusTokens == 3
MaxFeatures == 2
WeightSteps == 3

Tokens == 1..MaxTok
Labels == {"doc_a", "doc_b"}

(* ------------------------- sequences and sets ------------------------- *)
Range(s) == {s[i] : i \in DOMAIN s}

SeqsUpTo(S, n) == UNION {[1..k -> S] : k \in 0..n}

Reverse(s) == [i \in 1..Len(s) |-> s[Len(s) + 1 - i]]

PositionOf(s, x) == CHOOSE i \in DOMAIN s : s[i] = x

SetMin(S) == CHOOSE x \in S : \A y \in S : x <= y

SetMax(S) == CHOOSE x \in S : \A y \in S : y <= x

RECURSIVE SumSeq(_)
SumSeq(s) == IF s = <<>> THEN 0 ELSE s[1] + SumSeq(Tail(s))

(* pandas' missing value: the cell of a token a document does not hold,   *)
(* until fillna(0) replaces it                                            *)
NaN == -1

(* Index(_try_sort(data)): the keys of a plain dict, sorted               *)
RECURSIVE SortedList(_)
SortedList(S) ==
    IF S = {} THEN <<>>
    ELSE LET m == SetMin(S) IN <<m>> \o SortedList(S \ {m})

(* collections.Counter(tokenized_document)                                *)
Counter(tokenized_document) ==
    [t \in Range(tokenized_document) |->
        Cardinality({i \in DOMAIN tokenized_document : tokenized_document[i] = t})]

(* pd.Series(Counter(...)) with .name set: the index is the sorted keys   *)
Series(data, name) ==
    LET idx == SortedList(DOMAIN data)
    IN  [index |-> idx, values |-> [i \in DOMAIN idx |-> data[idx[i]]], name |-> name]

(* pd.DataFrame()                                                         *)
EmptyDataFrame == [index |-> <<>>, columns |-> <<>>, values |-> <<>>]

(* Series.reindex(combined_columns): NaN for a label the series lacks     *)
Reindex(series, combined_columns) ==
    [j \in DOMAIN combined_columns |->
        IF combined_columns[j] \in Range(series.index)
        THEN series.values[PositionOf(series.index, combined_columns[j])]
        ELSE NaN]

(* variant: an append that folds a series into the row already carrying   *)
(* its name, as a dict keyed by label would                               *)
DataFrameAppendMergingLabels(df, other) ==
    LET idx_diff == SortedList(Range(other.index) \ Range(df.columns))
        combined_columns == df.columns \o idx_diff
        widened == [i \in DOMAIN df.values |->
                      df.values[i] \o [j \in 1..Len(idx_diff) |-> NaN]]
        row == Reindex(other, combined_columns)
    IN  IF other.name \in Range(df.index)
        THEN [index   |-> df.index,
              columns |-> combined_columns,
              values  |-> [i \in DOMAIN widened |->
                             IF i = PositionOf(df.index, other.name)
                             THEN [j \in DOMAIN combined_columns |->
                                     IF row[j] = NaN THEN widened[i][j]
                                     ELSE IF widened[i][j] = NaN THEN row[j]
                                     ELSE widened[i][j] + row[j]]
                             ELSE widened[i]]]
        ELSE [index   |-> Append(df.index, other.name),
              columns |-> combined_columns,
              values  |-> Append(widened, row)]

(* DataFrame.append(Series): the new labels go behind the old columns in  *)
(* sorted order (Index.difference sorts), old rows get NaN there, and the *)
(* series becomes one more row labelled with its name                     *)
DataFrameAppend(df, other) ==
    LET idx_diff == SortedList(Range(other.index) \ Range(df.columns))
        combined_columns == df.columns \o idx_diff
        widened == [i \in DOMAIN df.values |->
                      df.values[i] \o [j \in 1..Len(idx_diff) |-> NaN]]
    IN  [index   |-> Append(df.index, other.name),
         columns |-> combined_columns,
         values  |-> Append(widened, Reindex(other, combined_columns))]

(* DataFrame.sum(): per column, NaN skipped                               *)
DataFrameSum(df) ==
    [index  |-> df.columns,
     values |-> [j \in DOMAIN df.columns |->
                   SumSeq([i \in DOMAIN df.values |->
                             IF df.values[i][j] = NaN THEN 0 ELSE df.values[i][j]])]]

(* DataFrame.max(): per column, NaN skipped; NaN for a column of no value *)
DataFrameMax(df) ==
    [index  |-> df.columns,
     values |-> [j \in DOMAIN df.columns |->
                   LET present == {df.values[i][j] : i \in DOMAIN df.values} \ {NaN}
                   IN  IF present = {} THEN NaN ELSE SetMax(present)]]

(* numpy argsort(kind='quicksort') on at most 16 elements is its insertion *)
(* sort: an element moves left past the strictly greater ones only         *)
RECURSIVE InsertionArgsort(_, _)
InsertionArgsort(v, n) ==
    IF n = 0 THEN <<>>
    ELSE LET sorted == InsertionArgsort(v, n - 1)
             keep == {k \in DOMAIN sorted : v[sorted[k]] <= v[n]}
             at == IF keep = {} THEN 0 ELSE SetMax(keep)
         IN  SubSeq(sorted, 1, at) \o <<n>> \o SubSeq(sorted, at + 1, Len(sorted))

Argsort(v) == InsertionArgsort(v, Len(v))

(* variant: sort_values() with ascending left at its default              *)
SortValuesAscendingIndex(series) ==
    LET argsorted == Argsort(series.values)
    IN  [k \in DOMAIN argsorted |-> series.index[argsorted[k]]]

(* variant: a descending sort that is itself stable, equal values staying *)
(* in index order                                                         *)
SortValuesStableDescendingIndex(series) ==
    LET argsorted == Argsort([j \in DOMAIN series.values |-> 0 - series.values[j]])
    IN  [k \in DOMAIN argsorted |-> series.index[argsorted[k]]]

(* Series.sort_values(ascending=False).index: the ascending argsort,      *)
(* reversed                                                                *)
SortValuesDescendingIndex(series) ==
    LET argsorted == Reverse(Argsort(series.values))
    IN  [k \in DOMAIN argsorted |-> series.index[argsorted[k]]]

(* DataFrame.loc[:, labels]: the columns named, in the order named        *)
LocColumns(df, labels) ==
    [index   |-> df.index,
     columns |-> labels,
     values  |-> [i \in DOMAIN df.values |->
                    [k \in DOMAIN labels |-> df.values[i][PositionOf(df.columns, labels[k])]]]]

(* variant: the frame returned without fillna(0)                          *)
FillnaOmitted(df) == df

(* DataFrame.fillna(0)                                                    *)
Fillna0(df) ==
    [index   |-> df.index,
     columns |-> df.columns,
     values  |-> [i \in DOMAIN df.values |->
                    [j \in DOMAIN df.columns |->
                        IF df.values[i][j] = NaN THEN 0 ELSE df.values[i][j]]]]

(* zip(tokenized_corpus, document_labels) stops at the shorter one        *)
ZipLen(tokenized_corpus, document_labels) ==
    IF Len(tokenized_corpus) <= Len(document_labels)
    THEN Len(tokenized_corpus) ELSE Len(document_labels)

(* the for loop of _create_small_corpus_model after k iterations          *)
RECURSIVE AppendLoop(_, _, _)
AppendLoop(tokenized_corpus, document_labels, k) ==
    IF k = 0 THEN EmptyDataFrame
    ELSE DataFrameAppend(AppendLoop(tokenized_corpus, document_labels, k - 1),
                         Series(Counter(tokenized_corpus[k]), document_labels[k]))

SortByFrequency(df) == LocColumns(df, SortValuesDescendingIndex(DataFrameSum(df)))

_create_small_corpus_model(tokenized_corpus, document_labels) ==
    Fillna0(SortByFrequency(
        AppendLoop(tokenized_corpus, document_labels,
                   ZipLen(tokenized_corpus, document_labels))))

(* large_corpus is accepted and not looked at                             *)
create_document_term_matrix(tokenized_corpus, document_labels, large_corpus) ==
    _create_small_corpus_model(tokenized_corpus, document_labels)

(* variant: hapax legomena taken as the tokens of total count 1           *)
find_hapax_legomena_by_sum(df) ==
    LET sm == DataFrameSum(df).values
        at == SortedList({j \in DOMAIN df.columns : sm[j] = 1})
    IN  [k \in DOMAIN at |-> df.columns[at[k]]]

(* DataFrame.loc[:, mask].columns.tolist() with mask = (max() == 1)       *)
find_hapax_legomena(df) ==
    LET mx == DataFrameMax(df).values
        kept == {j \in DOMAIN df.columns : mx[j] = 1}
        at == SortedList(kept)
    IN  [k \in DOMAIN at |-> df.columns[at[k]]]

(* the stop of the Python slice [:n] on a sequence of length len          *)
SliceStop(n, len) ==
    IF n >= 0 THEN (IF n <= len THEN n ELSE len)
    ELSE (IF len + n >= 0 THEN len + n ELSE 0)

(* variant: the slice [n:] in place of [:n]                               *)
find_stopwords_from(df, n) ==
    SubSeq(df.columns, SliceStop(n, Len(df.columns)) + 1, Len(df.columns))

(* DataFrame.iloc[:, :most_frequent_tokens].columns.tolist()              *)
find_stopwords(df, n) == SubSeq(df.columns, 1, SliceStop(n, Len(df.columns)))

(* variant: a drop that shortens the rows from the right instead of       *)
(* taking the dropped columns' cells out                                  *)
DropMisaligned(df, labels) ==
    IF \E k \in DOMAIN labels : labels[k] \notin Range(df.columns)
    THEN [raised |-> "ValueError", frame |-> df]
    ELSE LET at == SortedList({j \in DOMAIN df.columns : df.columns[j] \notin Range(labels)})
         IN  [raised |-> "none",
              frame  |-> [index   |-> df.index,
                          columns |-> [k \in DOMAIN at |-> df.columns[at[k]]],
                          values  |-> [i \in DOMAIN df.values |->
                                         SubSeq(df.values[i], 1, Len(at))]]]

(* DataFrame.drop(labels, axis=1): a label that is no column raises       *)
Drop(df, labels) ==
    IF \E k \in DOMAIN labels : labels[k] \notin Range(df.columns)
    THEN [raised |-> "ValueError", frame |-> df]
    ELSE LET at == SortedList({j \in DOMAIN df.columns : df.columns[j] \notin Range(labels)})
         IN  [raised |-> "none",
              frame  |-> [index   |-> df.index,
                          columns |-> [k \in DOMAIN at |-> df.columns[at[k]]],
                          values  |-> [i \in DOMAIN df.values |->
                                         [k \in DOMAIN at |-> df.values[i][at[k]]]]]]

(* variant: the feature list handed to drop() as given                    *)
PresentFeaturesUnfiltered(df, features) == features

(* [token for token in features if token in document_term_matrix.columns] *)
PresentFeatures(df, features) ==
    SelectSeq(features, LAMBDA token : token \in Range(df.columns))

_remove_features_from_small_corpus_model(df, features) ==
    Drop(df, PresentFeatures(df, features))

(* matrix mode: tokenized_corpus and type_ids are not looked at           *)
remove_features(features, df) ==
    _remove_features_from_small_corpus_model(df, features)

(* the document_term_matrix argument of a call: None when the caller      *)
(* leaves it out, or the frame given                                      *)
NoneArgument == [none |-> TRUE, frame |-> EmptyDataFrame]

FrameArgument(df) == [none |-> FALSE, frame |-> df]

(* remove_features(features, document_term_matrix, tokenized_corpus):     *)
(* whichever arguments are given, document_term_matrix is what goes down  *)
(* to _remove_features_from_small_corpus_model; when it is None, reading  *)
(* None.columns (or, for an empty feature list, None.drop) raises         *)
remove_features_call(features, document_term_matrix_arg, tokenized_corpus_arg) ==
    IF document_term_matrix_arg.none
    THEN [raised |-> "AttributeError", frame |-> EmptyDataFrame]
    ELSE remove_features(features, document_term_matrix_arg.frame)

(* ------------------------- postprocessing.py -------------------------- *)
(* the topics of the module's example model, lda.LDA(n_topics=2, ...)     *)
N_TOPICS == 2

(* 'Topic {}'.format(n) and 'Key {}'.format(n)                            *)
TopicLabel(n) == <<"Topic", n>>

KeyLabel(n) == <<"Key", n>>

(* array[indices]: the elements at the (1-based) indices, in their order  *)
TakeIndices(array, indices) == [k \in DOMAIN indices |-> array[indices[k]]]

(* array[:-num_keys-1:-1] for num_keys >= 0: the array read from its end, *)
(* num_keys elements of it at most                                        *)
ReversedTail(array, num_keys) ==
    LET n == IF num_keys <= Len(array) THEN num_keys ELSE Len(array)
    IN  [k \in 1..n |-> array[Len(array) + 1 - k]]

(* variant: the slice [:num_keys], the array read from its start          *)
TopicKeysFromStart(vocabulary, topic_distribution, num_keys) ==
    SubSeq(TakeIndices(vocabulary, Argsort(topic_distribution)), 1,
           IF num_keys <= Len(vocabulary) THEN num_keys ELSE Len(vocabulary))

(* np.array(vocabulary)[np.argsort(topic_distribution)][:-num_keys-1:-1]  *)
TopicKeys(vocabulary, topic_distribution, num_keys) ==
    ReversedTail(TakeIndices(vocabulary, Argsort(topic_distribution)), num_keys)

(* a topic-word matrix wider than the vocabulary indexes past its end;    *)
(* rows that are not num_keys long do not fit the columns given           *)
_show_lda_topics(topic_word, vocabulary, num_keys) ==
    IF \E i \in DOMAIN topic_word : Len(topic_word[i]) > Len(vocabulary)
    THEN [raised |-> "IndexError", frame |-> EmptyDataFrame]
    ELSE LET topics == [i \in DOMAIN topic_word |->
                           TopicKeys(vocabulary, topic_word[i], num_keys)]
             index == [n \in 1..Len(topics) |-> TopicLabel(n - 1)]
             columns == [n \in 1..num_keys |-> KeyLabel(n - 1)]
         IN  IF \E i \in DOMAIN topics : Len(topics[i]) # num_keys
             THEN [raised |-> "AssertionError", frame |-> EmptyDataFrame]
             ELSE [raised |-> "none",
                   frame  |-> [index |-> index, columns |-> columns, values |-> topics]]

(* topic_keys_file is not looked at                                       *)
show_topics(topic_word, vocabulary, num_keys) ==
    _show_lda_topics(topic_word, vocabulary, num_keys)

(* ------------------------------- state -------------------------------- *)
VARIABLES
    tokenized_corpus,       \* the caller's corpus: a list of token lists
    document_labels,        \* the caller's label list
    document_term_matrix,   \* the caller's matrix, reassigned by each call that returns one
    op,                     \* the last function called
    large_corpus,           \* create_document_term_matrix's flag in that call
    most_frequent_tokens,   \* find_stopwords' threshold in that call
    features,               \* remove_features' token list in that call
    passed,                 \* the matrix that call was given
    returned,               \* the type of what it returned, and the list if it is one
    raised,                 \* the exception it raised, "none" if it returned
    repeated,               \* remove_features was given the features of the call before
    topic_word,             \* model.topic_word_: one weight vector per topic
    vocabulary,             \* the vocabulary given to show_topics
    num_keys,               \* show_topics' num_keys in that call
    topics                  \* the table show_topics returned

vars == <<tokenized_corpus, document_labels, document_term_matrix, op, large_corpus,
          most_frequent_tokens, features, passed, returned, raised, repeated,
          topic_word, vocabulary, num_keys, topics>>

topicVars == <<topic_word, vocabulary, num_keys, topics>>

NoTopics ==
    /\ topic_word = <<>>
    /\ vocabulary = <<>>
    /\ num_keys = 0
    /\ topics = EmptyDataFrame

(* the corpora of k documents holding budget tokens at most               *)
RECURSIVE CorporaOf(_, _)
CorporaOf(k, budget) ==
    IF k = 0 THEN {<<>>}
    ELSE UNION {{<<d>> \o c : c \in CorporaOf(k - 1, budget - Len(d))} :
                    d \in SeqsUpTo(Tokens, budget)}

Corpora == UNION {CorporaOf(k, MaxCorpusTokens) : k \in 0..MaxDocs}

NoList == [type |-> "None", list |-> <<>>]

Init ==
    /\ tokenized_corpus \in Corpora
    /\ document_labels \in SeqsUpTo(Labels, MaxDocs)
    /\ document_term_matrix = EmptyDataFrame
    /\ op = "none"
    /\ large_corpus = FALSE
    /\ most_frequent_tokens = 0
    /\ features = <<>>
    /\ passed = EmptyDataFrame
    /\ returned = NoList
    /\ raised = "none"
    /\ repeated = FALSE
    /\ NoTopics

(* document_term_matrix = create_document_term_matrix(corpus, labels, lc) *)
Create ==
    /\ op = "none"
    /\ \E lc \in BOOLEAN :
        /\ large_corpus' = lc
        /\ document_term_matrix' =
               create_document_term_matrix(tokenized_corpus, document_labels, lc)
    /\ op' = "create_document_term_matrix"
    /\ passed' = EmptyDataFrame
    /\ returned' = [type |-> "DataFrame", list |-> <<>>]
    /\ raised' = "none"
    /\ repeated' = FALSE
    /\ UNCHANGED <<tokenized_corpus, document_labels, most_frequent_tokens, features>>
    /\ UNCHANGED topicVars

(* find_hapax_legomena(document_term_matrix)                              *)
FindHapaxLegomena ==
    /\ op # "none"
    /\ raised = "none"
    /\ op' = "find_hapax_legomena"
    /\ passed' = document_term_matrix
    /\ returned' = [type |-> "list", list |-> find_hapax_legomena(document_term_matrix)]
    /\ raised' = "none"
    /\ large_corpus' = FALSE
    /\ most_frequent_tokens' = 0
    /\ features' = <<>>
    /\ repeated' = FALSE
    /\ UNCHANGED <<tokenized_corpus, document_labels, document_term_matrix>>
    /\ UNCHANGED topicVars

(* find_stopwords(document_term_matrix, n)                                *)
FindStopwords ==
    /\ op # "none"
    /\ raised = "none"
    /\ \E n \in -1..(Len(document_term_matrix.columns) + 1) :
        /\ most_frequent_tokens' = n
        /\ returned' = [type |-> "list", list |-> find_stopwords(document_term_matrix, n)]
    /\ op' = "find_stopwords"
    /\ passed' = document_term_matrix
    /\ raised' = "none"
    /\ large_corpus' = FALSE
    /\ features' = <<>>
    /\ repeated' = FALSE
    /\ UNCHANGED <<tokenized_corpus, document_labels, document_term_matrix>>
    /\ UNCHANGED topicVars

(* document_term_matrix = remove_features(f, document_term_matrix)        *)
RemoveFeatures ==
    /\ op # "none"
    /\ raised = "none"
    /\ \E f \in SeqsUpTo(Tokens, MaxFeatures) :
        LET out == remove_features(f, document_term_matrix)
        IN  /\ features' = f
            /\ raised' = out.raised
            /\ document_term_matrix' = out.frame
            /\ returned' = IF out.raised = "none"
                           THEN [type |-> "DataFrame", list |-> <<>>] ELSE NoList
            /\ repeated' = (op = "remove_features" /\ features = f)
    /\ op' = "remove_features"
    /\ passed' = document_term_matrix
    /\ large_corpus' = FALSE
    /\ most_frequent_tokens' = 0
    /\ UNCHANGED <<tokenized_corpus, document_labels>>
    /\ UNCHANGED topicVars

(* building the matrix and reading the two feature lists off it          *)
Next == Create \/ FindHapaxLegomena \/ FindStopwords

Spec == Init /\ [][Next]_vars

(* building the matrix and removing features from it, call after call     *)
NextRemove == Create \/ RemoveFeatures

SpecRemove == Init /\ [][NextRemove]_vars

(* remove_features(f, tokenized_corpus=tokenized_corpus)                  *)
RemoveFeaturesTokenizedCorpus ==
    /\ op = "none"
    /\ \E f \in SeqsUpTo(Tokens, MaxFeatures) :
        LET out == remove_features_call(f, NoneArgument, tokenized_corpus)
        IN  /\ features' = f
            /\ raised' = out.raised
            /\ returned' = IF out.raised = "none"
                           THEN [type |-> "DataFrame", list |-> <<>>] ELSE NoList
    /\ op' = "remove_features_tokenized_corpus"
    /\ UNCHANGED <<tokenized_corpus, document_labels, document_term_matrix, large_corpus,
                   most_frequent_tokens, passed, repeated>>
    /\ UNCHANGED topicVars

(* removing features from a tokenized corpus                              *)
NextCorpus == RemoveFeaturesTokenizedCorpus

SpecCorpus == Init /\ [][NextCorpus]_vars

(* the vocabularies: lists of distinct tokens                             *)
Vocabularies == {v \in SeqsUpTo(Tokens, MaxTok) : v # <<>> /\ Cardinality(Range(v)) = Len(v)}

(* the rows a fitted lda model holds in topic_word_: distributions over   *)
(* n words, the weights counted in steps of 1/WeightSteps and summing to  *)
(* 1 (WeightSteps steps)                                                  *)
Distributions(n) == {w \in [1..n -> 0..WeightSteps] : SumSeq(w) = WeightSteps}

(* a trained model and a vocabulary as long as its topic-word matrix is   *)
(* wide; nothing of the corpus functions has been called                  *)
InitTopics ==
    /\ tokenized_corpus = <<>>
    /\ document_labels = <<>>
    /\ document_term_matrix = EmptyDataFrame
    /\ op = "none"
    /\ large_corpus = FALSE
    /\ most_frequent_tokens = 0
    /\ features = <<>>
    /\ passed = EmptyDataFrame
    /\ returned = NoList
    /\ raised = "none"
    /\ repeated = FALSE
    /\ vocabulary \in Vocabularies
    /\ topic_word \in [1..N_TOPICS -> Distributions(Len(vocabulary))]
    /\ num_keys = 0
    /\ topics = EmptyDataFrame

(* topics = show_topics(model, vocabulary, num_keys=k)                    *)
ShowTopics ==
    /\ op = "none"
    /\ \E k \in 0..(Len(vocabulary) + 1) :
        LET out == show_topics(topic_word, vocabulary, k)
        IN  /\ num_keys' = k
            /\ raised' = out.raised
            /\ topics' = out.frame
            /\ returned' = IF out.raised = "none"
                           THEN [type |-> "DataFrame", list |-> <<>>] ELSE NoList
    /\ op' = "show_topics"
    /\ UNCHANGED <<tokenized_corpus, document_labels, document_term_matrix, large_corpus,
                   most_frequent_tokens, features, passed, repeated, topic_word, vocabulary>>

NextTopics == ShowTopics

SpecTopics == InitTopics /\ [][NextTopics]_vars

(* ------------------------------ claims -------------------------------- *)
Created == op = "create_document_term_matrix"

EqualLengths == Len(document_labels) = Len(tokenized_corpus)

(* occurrences of token t in a document                                   *)
CountIn(doc, t) == Cardinality({i \in DOMAIN doc : doc[i] = t})

(* the sum of the cells of column j                                       *)
ColSum(df, j) == SumSeq([i \in DOMAIN df.values |-> df.values[i][j]])

NoDuplicates(s) == \A a, b \in DOMAIN s : s[a] = s[b] => a = b

(* C1: for a corpus and a label list of the same length the matrix has    *)
(* one row per label, in input order and by position: its index is the    *)
(* label list itself, so a label given k times heads k rows.              *)
C1_OneRowPerLabel ==
    (Created /\ EqualLengths) =>
        /\ document_term_matrix.index = document_labels
        /\ Len(document_term_matrix.values) = Len(document_labels)
        /\ \A i \in DOMAIN document_term_matrix.values :
              Len(document_term_matrix.values[i]) = Len(document_term_matrix.columns)

C1_Witness ==
    /\ Created /\ EqualLengths
    /\ Len(document_labels) = 2
    /\ document_labels[1] = document_labels[2]
    /\ Len(document_term_matrix.values) = 2
    /\ document_term_matrix.values[1] # document_term_matrix.values[2]

(* C2: for inputs of equal length (the builder's contract) the columns    *)
(* are exactly the tokens of all documents, each once, and the cell of    *)
(* document i and token t is the number of occurrences of t in document   *)
(* i, 0 when there is none; so every cell is a non-negative integer.      *)
C2_CellsAreCounts ==
    (Created /\ EqualLengths) =>
        /\ Range(document_term_matrix.columns) =
               UNION {Range(tokenized_corpus[i]) : i \in DOMAIN tokenized_corpus}
        /\ NoDuplicates(document_term_matrix.columns)
        /\ \A i \in DOMAIN tokenized_corpus :
              \A j \in DOMAIN document_term_matrix.columns :
                  /\ document_term_matrix.values[i][j] =
                         CountIn(tokenized_corpus[i], document_term_matrix.columns[j])
                  /\ document_term_matrix.values[i][j] \in Nat

C2_Witness ==
    /\ Created /\ EqualLengths
    /\ \E i \in DOMAIN document_term_matrix.values :
          \E j, k \in DOMAIN document_term_matrix.columns :
              /\ document_term_matrix.values[i][j] = 0
              /\ document_term_matrix.values[i][k] = 2

(* C3: the column sums of the matrix are non-increasing left to right.    *)
C3_ColumnSumsNonIncreasing ==
    Created =>
        \A j \in 1..(Len(document_term_matrix.columns) - 1) :
            ColSum(document_term_matrix, j) >= ColSum(document_term_matrix, j + 1)

C3_Witness ==
    /\ Created
    /\ Len(document_term_matrix.columns) >= 2
    /\ ColSum(document_term_matrix, 1) > ColSum(document_term_matrix, 2)
    /\ document_term_matrix.columns[1] > document_term_matrix.columns[2]

(* the first document that holds token t, and where in it t first stands  *)
FirstDoc(t) == SetMin({i \in DOMAIN tokenized_corpus : t \in Range(tokenized_corpus[i])})

FirstPos(t) ==
    SetMin({p \in DOMAIN tokenized_corpus[FirstDoc(t)] : tokenized_corpus[FirstDoc(t)][p] = t})

SeenBefore(t, u) ==
    \/ FirstDoc(t) < FirstDoc(u)
    \/ FirstDoc(t) = FirstDoc(u) /\ FirstPos(t) < FirstPos(u)

(* C4 as stated: of two tokens of the same total frequency the one seen   *)
(* first in the corpus stands further left.                               *)
C4_TiesInFirstSeenOrder ==
    (Created /\ EqualLengths) =>
        \A j, k \in DOMAIN document_term_matrix.columns :
            (j < k /\ ColSum(document_term_matrix, j) = ColSum(document_term_matrix, k))
                => SeenBefore(document_term_matrix.columns[j], document_term_matrix.columns[k])

(* C4 amended: of two tokens of the same total frequency the one that     *)
(* came later into the matrix stands further left: the one first held by  *)
(* a later document, or, when the same document is the first to hold      *)
(* both, the one later in sort order (vocabularies of at most 16 tokens,  *)
(* where the descending sort is a stable ascending sort reversed).        *)
C4_TiesInReverseAppendOrder ==
    (Created /\ EqualLengths) =>
        \A j, k \in DOMAIN document_term_matrix.columns :
            (j < k /\ ColSum(document_term_matrix, j) = ColSum(document_term_matrix, k))
                => LET t == document_term_matrix.columns[j]
                       u == document_term_matrix.columns[k]
                   IN  \/ FirstDoc(t) > FirstDoc(u)
                       \/ FirstDoc(t) = FirstDoc(u) /\ t > u

C4_Witness ==
    /\ Created /\ EqualLengths
    /\ \E j, k \in DOMAIN document_term_matrix.columns :
          /\ j < k
          /\ ColSum(document_term_matrix, j) = ColSum(document_term_matrix, k)
          /\ SeenBefore(document_term_matrix.columns[k], document_term_matrix.columns[j])
          /\ FirstDoc(document_term_matrix.columns[j]) > FirstDoc(document_term_matrix.columns[k])

(* C5 as stated: label list and corpus of different lengths make          *)
(* create_document_term_matrix fail with an error; no matrix comes back.  *)
C5_LengthMismatchFails ==
    (Created /\ ~EqualLengths) => (raised # "none" /\ returned.type # "DataFrame")

(* C6 as stated: with large_corpus true the call returns three results,   *)
(* a sparse table and two id mappings, and not the single dense table.    *)
C6_LargeCorpusReturnsTriple ==
    (Created /\ large_corpus) => (returned.type = "tuple" /\ returned.type # "DataFrame")

(* the largest cell of column j                                           *)
ColMax(df, j) == SetMax({df.values[i][j] : i \in DOMAIN df.values})

(* C7: find_hapax_legomena returns exactly the columns whose largest      *)
(* count over the documents is 1, each once, in column order; a token     *)
(* standing twice or more in some document is not returned, a token       *)
(* standing once in several documents is.                                 *)
C7_HapaxAreColumnsOfMaxOne ==
    (op = "find_hapax_legomena") =>
        LET cols == passed.columns
            H == returned.list
        IN  /\ raised = "none"
            /\ Range(H) = {cols[j] : j \in {j \in DOMAIN cols :
                                 passed.values # <<>> /\ ColMax(passed, j) = 1}}
            /\ NoDuplicates(H)
            /\ \A a, b \in DOMAIN H :
                  a < b => PositionOf(cols, H[a]) < PositionOf(cols, H[b])
            /\ \A i \in DOMAIN passed.index : \A t \in Tokens :
                  CountIn(tokenized_corpus[i], t) >= 2 => t \notin Range(H)
            /\ \A t \in Range(cols) :
                  ( /\ \A i \in DOMAIN passed.index : CountIn(tokenized_corpus[i], t) <= 1
                    /\ Cardinality({i \in DOMAIN passed.index :
                                       CountIn(tokenized_corpus[i], t) = 1}) >= 2 )
                  => t \in Range(H)

C7_Witness ==
    /\ op = "find_hapax_legomena"
    /\ Len(passed.index) = 2
    /\ Len(passed.columns) = 2
    /\ \E j \in DOMAIN passed.columns :
          /\ passed.columns[j] \in Range(returned.list)
          /\ ColSum(passed, j) = 2

(* C8: for a threshold N >= 0 find_stopwords returns the first            *)
(* min(N, number of columns) column labels in column order, and no token  *)
(* left out has a strictly greater total frequency than one returned.     *)
C8_StopwordsAreMostFrequent ==
    (op = "find_stopwords" /\ most_frequent_tokens >= 0) =>
        LET cols == passed.columns
            m == IF most_frequent_tokens <= Len(cols) THEN most_frequent_tokens ELSE Len(cols)
        IN  /\ raised = "none"
            /\ Len(returned.list) = m
            /\ \A k \in 1..m : returned.list[k] = cols[k]
            /\ \A j, k \in DOMAIN cols :
                  (cols[j] \in Range(returned.list) /\ cols[k] \notin Range(returned.list))
                      => ColSum(passed, k) <= ColSum(passed, j)

C8_Witness ==
    /\ op = "find_stopwords"
    /\ most_frequent_tokens >= 1
    /\ most_frequent_tokens < Len(passed.columns)
    /\ Len(returned.list) = most_frequent_tokens
    /\ ColSum(passed, Len(passed.columns)) < ColSum(passed, 1)

(* C9: remove_features in matrix mode raises nothing and returns the      *)
(* columns of its matrix that are not in the feature list, in their       *)
(* order, with the same rows in the same order and every remaining cell   *)
(* as it was; a feature that is no column changes nothing.                *)
C9_RemoveFeaturesFrame ==
    (op = "remove_features") =>
        /\ raised = "none"
        /\ returned.type = "DataFrame"
        /\ document_term_matrix.columns =
               SelectSeq(passed.columns, LAMBDA t : t \notin Range(features))
        /\ document_term_matrix.index = passed.index
        /\ Len(document_term_matrix.values) = Len(passed.values)
        /\ \A i \in DOMAIN document_term_matrix.values :
              /\ Len(document_term_matrix.values[i]) = Len(document_term_matrix.columns)
              /\ \A k \in DOMAIN document_term_matrix.columns :
                    document_term_matrix.values[i][k] =
                        passed.values[i][PositionOf(passed.columns,
                                                    document_term_matrix.columns[k])]

C9_Witness ==
    /\ op = "remove_features"
    /\ raised = "none"
    /\ \E a, b \in DOMAIN features :
          /\ features[a] \in Range(passed.columns)
          /\ features[b] \notin Range(passed.columns)
    /\ Len(document_term_matrix.columns) >= 1
    /\ Len(document_term_matrix.columns) < Len(passed.columns)
    /\ Len(document_term_matrix.values) >= 1

(* C10: removing the feature list a second time, from the matrix the      *)
(* first removal returned, raises nothing and returns that matrix again.  *)
C10_RemoveFeaturesIdempotent ==
    (op = "remove_features" /\ repeated) =>
        /\ raised = "none"
        /\ returned.type = "DataFrame"
        /\ document_term_matrix = passed

C10_Witness ==
    /\ op = "remove_features"
    /\ repeated
    /\ raised = "none"
    /\ Len(document_term_matrix.columns) >= 1
    /\ Len(document_term_matrix.values) >= 1
    /\ \E k \in DOMAIN features : \E i \in DOMAIN document_term_matrix.index :
          features[k] \in Range(tokenized_corpus[i])

(* C11 as stated: remove_features given a feature list and a tokenized    *)
(* corpus, and no matrix, returns for each document in order its tokens   *)
(* that are not in the feature list, in their order and multiplicity.     *)
C11_TokenizedCorpusFiltered ==
    (op = "remove_features_tokenized_corpus") =>
        /\ raised = "none"
        /\ returned.type = "list"
        /\ returned.list =
               [i \in DOMAIN tokenized_corpus |->
                   SelectSeq(tokenized_corpus[i], LAMBDA t : t \notin Range(features))]

(* the place in the vocabulary of the key of rank k in topic i            *)
KeyAt(i, k) == PositionOf(vocabulary, topics.values[i][k])

(* the places in the vocabulary of the keys of topic i, rank by rank      *)
KeyPlaces(i) == [k \in DOMAIN topics.values[i] |-> KeyAt(i, k)]

(* what C12 says of the table apart from the order of equal weights: one  *)
(* row per topic labelled 'Topic i', columns 'Key 0' to 'Key num_keys-1', *)
(* each row num_keys different tokens in descending weight, and no token  *)
(* left out of a row heavier than one in it                               *)
TopicsTableShape ==
    /\ raised = "none"
    /\ topics.index = [n \in 1..Len(topic_word) |-> TopicLabel(n - 1)]
    /\ topics.columns = [n \in 1..num_keys |-> KeyLabel(n - 1)]
    /\ Len(topics.values) = Len(topic_word)
    /\ \A i \in DOMAIN topics.values :
          /\ Len(topics.values[i]) = num_keys
          /\ \A k \in 1..num_keys : topics.values[i][k] \in Range(vocabulary)
          /\ LET at == KeyPlaces(i)
                 w == topic_word[i]
             IN  /\ NoDuplicates(at)
                 /\ \A k \in 1..(num_keys - 1) : w[at[k]] >= w[at[k + 1]]
                 /\ \A q \in DOMAIN vocabulary \ Range(at) : w[q] <= w[at[num_keys]]

InClaimedRange == op = "show_topics" /\ num_keys >= 1 /\ num_keys <= Len(vocabulary)

(* C12 as stated: for num_keys between 1 and the vocabulary size the      *)
(* table has that shape, and of tokens of equal weight the one of lower   *)
(* vocabulary index takes the earlier rank.                               *)
C12_TiesLowerIndexFirst ==
    InClaimedRange =>
        /\ TopicsTableShape
        /\ \A i \in DOMAIN topics.values :
              LET at == KeyPlaces(i)
                  w == topic_word[i]
              IN  /\ \A k \in 1..(num_keys - 1) :
                        w[at[k]] = w[at[k + 1]] => at[k] < at[k + 1]
                  /\ \A q \in DOMAIN vocabulary \ Range(at) :
                        w[q] = w[at[num_keys]] => q > at[num_keys]

(* C12 amended: the same table, but of tokens of equal weight the one of  *)
(* HIGHER vocabulary index takes the earlier rank (vocabularies of at     *)
(* most 16 tokens, where the ascending argsort is stable; the code reads  *)
(* it from its end).                                                      *)
C12_TiesHigherIndexFirst ==
    InClaimedRange =>
        /\ TopicsTableShape
        /\ \A i \in DOMAIN topics.values :
              LET at == KeyPlaces(i)
                  w == topic_word[i]
              IN  /\ \A k \in 1..(num_keys - 1) :
                        w[at[k]] = w[at[k + 1]] => at[k] > at[k + 1]
                  /\ \A q \in DOMAIN vocabulary \ Range(at) :
                        w[q] = w[at[num_keys]] => q < at[num_keys]

C12_Witness ==
    /\ InClaimedRange
    /\ raised = "none"
    /\ num_keys >= 2
    /\ num_keys < Len(vocabulary)
    /\ \E i \in DOMAIN topics.values :
          topic_word[i][KeyAt(i, 1)] = topic_word[i][KeyAt(i, 2)]
    /\ \E i \in DOMAIN topics.values :
          topic_word[i][KeyAt(i, 1)] > topic_word[i][KeyAt(i, 2)]

=============================================================================
